---- MODULE Spec2Model ----
(***************************************************************************)
(* Version-registry service of DuckCoding: the read path of the version    *)
(* API server (loadVersions, loadUpdateInfo, generateETag and the four GET *)
(* handlers), its start-up and cron scheduling, and the refresh cycle it   *)
(* schedules; and the guideline synchronisation script                     *)
(* (scripts/ensure-guidelines-sync.mjs).                                   *)
(*                                                                         *)
(* JavaScript values are tagged records; a file is a sequence of JSON      *)
(* tokens, JSON.stringify produces that sequence and JSON.parse is a       *)
(* recursive-descent parser over it.                                       *)
(***************************************************************************)
EXTENDS Integers, Sequences, FiniteSets, TLC

(***************************************************************************)
(* JavaScript values                                                       *)
(***************************************************************************)
Undef == [t |-> "undefined"]
Null == [t |-> "null"]
NaN == [t |-> "nan"]
Bool(b) == [t |-> "bool", b |-> b]
Num(n) == [t |-> "num", n |-> n]
Str(s) == [t |-> "str", s |-> s]
\* a string holding the ISO-8601 text of the instant ms (milliseconds)
Iso(ms) == [t |-> "iso", ms |-> ms]
Arr(a) == [t |-> "arr", a |-> a]
\* an object: its own properties in insertion order, as <<key, value>> pairs
Obj(o) == [t |-> "obj", o |-> o]

\* ToBoolean: what `if (v)`, `!v`, `v ? a : b` and `v || w` test
Truthy(v) ==
  CASE v.t \in {"undefined", "null", "nan"} -> FALSE
    [] v.t = "bool" -> v.b
    [] v.t = "num" -> v.n # 0
    [] v.t = "str" -> v.s # ""
    [] OTHER -> TRUE

\* a || b
Or(a, b) == IF Truthy(a) THEN a ELSE b

HasKey(o, k) == \E i \in 1..Len(o) : o[i][1] = k

\* v[k] for a value v that is neither null nor undefined
Prop(v, k) ==
  IF v.t = "obj" /\ HasKey(v.o, k)
    THEN v.o[CHOOSE i \in 1..Len(v.o) : v.o[i][1] = k][2]
    ELSE IF v.t = "arr" /\ k = "length" THEN Num(Len(v.a))
    ELSE Undef

\* obj[k] = v: an existing key keeps its position, a new key is appended
SetProp(o, k, v) ==
  IF HasKey(o, k)
    THEN [i \in 1..Len(o) |-> IF o[i][1] = k THEN <<k, v>> ELSE o[i]]
    ELSE Append(o, <<k, v>>)

\* completion of an evaluation: a value, or a thrown error
Return(v) == [threw |-> FALSE, v |-> v]
Throw(msg) == [threw |-> TRUE, v |-> Str(msg)]

(***************************************************************************)
(* JSON text                                                               *)
(***************************************************************************)
Punct(s) == [t |-> "punct", s |-> s]
LBrace == Punct("{")
RBrace == Punct("}")
LBrack == Punct("[")
RBrack == Punct("]")
Comma == Punct(",")
Colon == Punct(":")

ScalarTypes == {"null", "bool", "num", "str", "iso"}

RECURSIVE JSONstringify(_)
RECURSIVE StringifyMembers(_, _)
RECURSIVE StringifyElements(_)
\* members whose value is undefined are left out
StringifyMembers(o, first) ==
  IF o = <<>> THEN <<>>
  ELSE IF Head(o)[2].t = "undefined" THEN StringifyMembers(Tail(o), first)
  ELSE (IF first THEN <<>> ELSE <<Comma>>)
       \o <<Str(Head(o)[1]), Colon>> \o JSONstringify(Head(o)[2])
       \o StringifyMembers(Tail(o), FALSE)
StringifyElements(a) ==
  IF a = <<>> THEN <<>>
  ELSE JSONstringify(Head(a))
       \o (IF Len(a) > 1 THEN <<Comma>> ELSE <<>>)
       \o StringifyElements(Tail(a))
\* JSON.stringify: NaN and (inside arrays) undefined are written as null
JSONstringify(v) ==
  CASE v.t = "obj" -> <<LBrace>> \o StringifyMembers(v.o, TRUE) \o <<RBrace>>
    [] v.t = "arr" -> <<LBrack>> \o StringifyElements(v.a) \o <<RBrack>>
    [] v.t \in {"nan", "undefined"} -> <<Null>>
    [] OTHER -> <<v>>

ParseFail == [ok |-> FALSE, v |-> Undef, next |-> 0]
ParseOk(v, next) == [ok |-> TRUE, v |-> v, next |-> next]

RECURSIVE ParseValue(_, _)
RECURSIVE ParseMembers(_, _, _)
RECURSIVE ParseElements(_, _, _)
\* after '{' or ',': "key" : value, then ',' or '}'
ParseMembers(toks, i, acc) ==
  IF i + 1 > Len(toks) \/ toks[i].t # "str" \/ toks[i + 1] # Colon
    THEN ParseFail
    ELSE LET r == ParseValue(toks, i + 2)
         IN IF ~r.ok \/ r.next > Len(toks) THEN ParseFail
            ELSE LET o == SetProp(acc, toks[i].s, r.v)
                 IN IF toks[r.next] = RBrace THEN ParseOk(Obj(o), r.next + 1)
                    ELSE IF toks[r.next] = Comma
                      THEN ParseMembers(toks, r.next + 1, o)
                    ELSE ParseFail
\* after '[' or ',': value, then ',' or ']'
ParseElements(toks, i, acc) ==
  LET r == ParseValue(toks, i)
  IN IF ~r.ok \/ r.next > Len(toks) THEN ParseFail
     ELSE IF toks[r.next] = RBrack
       THEN ParseOk(Arr(Append(acc, r.v)), r.next + 1)
     ELSE IF toks[r.next] = Comma
       THEN ParseElements(toks, r.next + 1, Append(acc, r.v))
     ELSE ParseFail
ParseValue(toks, i) ==
  IF i > Len(toks) THEN ParseFail
  ELSE IF toks[i].t \in ScalarTypes THEN ParseOk(toks[i], i + 1)
  ELSE IF toks[i] = LBrace
    THEN IF i + 1 <= Len(toks) /\ toks[i + 1] = RBrace
           THEN ParseOk(Obj(<<>>), i + 2)
           ELSE ParseMembers(toks, i + 1, <<>>)
  ELSE IF toks[i] = LBrack
    THEN IF i + 1 <= Len(toks) /\ toks[i + 1] = RBrack
           THEN ParseOk(Arr(<<>>), i + 2)
           ELSE ParseElements(toks, i + 1, <<>>)
  ELSE ParseFail

\* JSON.parse: the value of a complete JSON text, a SyntaxError otherwise
JSONparse(text) ==
  LET r == ParseValue(text, 1)
  IN IF r.ok /\ r.next = Len(text) + 1
       THEN Return(r.v)
       ELSE Throw("SyntaxError")

(***************************************************************************)
(* Files                                                                   *)
(***************************************************************************)
VERSIONS_FILE == "versions.json"
UPDATE_FILE == "update.json"

\* what a path of the data directory holds
Absent == [k |-> "absent"]
Unreadable == [k |-> "unreadable"]
File(text) == [k |-> "file", text |-> text]

\* fs.readFile(path, 'utf8')
readFile(disk, path) ==
  CASE disk[path].k = "absent" -> Throw("ENOENT")
    [] disk[path].k = "unreadable" -> Throw("EACCES")
    [] OTHER -> [threw |-> FALSE, v |-> disk[path].text]

(***************************************************************************)
(* Snapshot store, read side                                               *)
(***************************************************************************)
\* the fallback with the status of a good snapshot
FallbackVersionsOk ==
  Obj(<< <<"tools", Arr(<<>>)>>, <<"updated_at", Null>>,
         <<"status", Str("ok")>> >>)

FallbackVersions ==
  Obj(<< <<"tools", Arr(<<>>)>>, <<"updated_at", Null>>,
         <<"status", Str("error")>> >>)

FallbackUpdateInfo ==
  Obj(<< <<"version", Null>>, <<"update", Obj(<<>>)>>,
         <<"release_notes", Str("")>>, <<"required", Bool(FALSE)>>,
         <<"updated_at", Null>> >>)

\* loadVersions with the catch missing: the failure reaches the caller
loadVersionsNoCatch(disk) ==
  LET data == readFile(disk, VERSIONS_FILE)
  IN IF data.threw THEN data ELSE JSONparse(data.v)

\* try { return JSON.parse(await fs.readFile(VERSIONS_FILE)) }
\* catch { return the fallback }
loadVersions(disk) ==
  LET data == readFile(disk, VERSIONS_FILE)
  IN IF data.threw THEN Return(FallbackVersions)
     ELSE LET parsed == JSONparse(data.v)
          IN IF parsed.threw THEN Return(FallbackVersions) ELSE parsed

\* loadUpdateInfo with JSON.parse outside the try block
loadUpdateInfoParseOutside(disk) ==
  LET data == readFile(disk, UPDATE_FILE)
  IN IF data.threw THEN Return(FallbackUpdateInfo) ELSE JSONparse(data.v)

loadUpdateInfo(disk) ==
  LET data == readFile(disk, UPDATE_FILE)
  IN IF data.threw THEN Return(FallbackUpdateInfo)
     ELSE LET parsed == JSONparse(data.v)
          IN IF parsed.threw THEN Return(FallbackUpdateInfo) ELSE parsed

(***************************************************************************)
(* Fingerprint                                                             *)
(***************************************************************************)
\* the MD5 digest of a text: distinct texts of the model have distinct
\* digests, equal texts the same digest
md5hex(content) == [md5 |-> content]

generateETag(data) == md5hex(JSONstringify(data))

\* header values of If-None-Match / ETag
NoHeader == [h |-> "none"]
StarHeader == [h |-> "star"]
TagHeader(weak, quoted, tag) ==
  [h |-> "tag", weak |-> weak, quoted |-> quoted, tag |-> tag]
\* the template `"${etag}"`
QuoteETag(etag) == TagHeader(FALSE, TRUE, etag)

(***************************************************************************)
(* Responses                                                               *)
(***************************************************************************)
\* one response sent: status line, the headers the handler set, the body
Response(status, cache, etag, hasBody, body) ==
  [sent |-> 1, status |-> status, cache |-> cache, etag |-> etag,
   hasBody |-> hasBody, body |-> body]
\* the failure left the handler: nothing is sent
Uncaught == [sent |-> 0, status |-> 0, cache |-> "", etag |-> NoHeader,
             hasBody |-> FALSE, body |-> <<>>]
\* res.json(v) after res.status(code)
Json(status, cache, etag, v) ==
  Response(status, cache, etag, TRUE, JSONstringify(v))

InternalError(e) ==
  Obj(<< <<"error", Str("Internal server error")>>, <<"message", e.v>> >>)

\* a handler without try/catch
TryNoCatch(body, onError) ==
  IF body.threw THEN Uncaught ELSE body.v

\* try { body } catch (error) { res.status(500).json(onError(error)) }
\* Headers set before the throw stay set; none of the bodies below throws
\* after res.set.
TryCatch(body, onError) ==
  IF body.threw THEN Json(500, "", NoHeader, onError) ELSE body.v

(***************************************************************************)
(* GET /api/v1/tools and GET /api/v1/update                                *)
(***************************************************************************)
\* the comparison written against the bare digest, `=== etag`
conditionalGetBare(loaded, cache, ifNoneMatch) ==
  IF loaded.threw THEN loaded
  ELSE LET data == loaded.v
           etag == generateETag(data)
       IN IF ifNoneMatch = TagHeader(FALSE, FALSE, etag)
            THEN Return(Response(304, cache, QuoteETag(etag), FALSE, <<>>))
            ELSE Return(Json(200, cache, QuoteETag(etag), data))

\* the validator taken from the fallback instead of the loaded document
conditionalGetForeignTag(loaded, cache, ifNoneMatch) ==
  IF loaded.threw THEN loaded
  ELSE LET data == loaded.v
           etag == generateETag(FallbackVersions)
       IN IF ifNoneMatch = QuoteETag(etag)
            THEN Return(Response(304, cache, QuoteETag(etag), FALSE, <<>>))
            ELSE Return(Json(200, cache, QuoteETag(etag), data))

conditionalGet(loaded, cache, ifNoneMatch) ==
  IF loaded.threw THEN loaded
  ELSE LET data == loaded.v
           etag == generateETag(data)
       IN IF ifNoneMatch = QuoteETag(etag)
            THEN Return(Response(304, cache, QuoteETag(etag), FALSE, <<>>))
            ELSE Return(Json(200, cache, QuoteETag(etag), data))

\* loaded is the outcome of `await loadVersions()`
getTools(loaded, ifNoneMatch) ==
  LET body == conditionalGet(loaded, "public, max-age=60", ifNoneMatch)
  IN TryCatch(body, InternalError(body))

\* loaded is the outcome of `await loadUpdateInfo()`
getUpdate(loaded, ifNoneMatch) ==
  LET body == conditionalGet(loaded, "public, max-age=300", ifNoneMatch)
  IN TryCatch(body, InternalError(body))

(***************************************************************************)
(* GET /api/v1/tools/:id                                                   *)
(***************************************************************************)
Nullish(v) == v.t \in {"null", "undefined"}

\* find with a predicate that looks at no id: the first record, whatever
\* was asked for
findAny(a, id) ==
  IF a = <<>> THEN Return(Undef)
  ELSE IF Nullish(Head(a)) THEN Throw("TypeError")
  ELSE Return(Head(a))

\* data.tools.find(t => t.id === id): the first match, undefined if none;
\* reading .id of a null element throws
RECURSIVE find(_, _)
find(a, id) ==
  IF a = <<>> THEN Return(Undef)
  ELSE IF Nullish(Head(a)) THEN Throw("TypeError")
  ELSE IF Prop(Head(a), "id") = Str(id) THEN Return(Head(a))
  ELSE find(Tail(a), id)

getToolBody(loaded, id) ==
  IF loaded.threw THEN loaded
  ELSE IF Nullish(loaded.v) THEN Throw("TypeError")
  ELSE LET tools == Prop(loaded.v, "tools")
       IN IF tools.t # "arr" THEN Throw("TypeError")
          ELSE LET tool == find(tools.a, id)
               IN IF tool.threw THEN tool
                  ELSE IF ~Truthy(tool.v)
                    THEN Return(Json(404, "", NoHeader,
                           Obj(<< <<"error", Str("Tool not found")>>,
                                  <<"id", Str(id)>> >>)))
                    ELSE Return(Json(200, "", NoHeader, tool.v))

getTool(loaded, id) ==
  LET body == getToolBody(loaded, id)
  IN TryCatch(body, InternalError(body))

(***************************************************************************)
(* GET /api/v1/health                                                      *)
(***************************************************************************)
StaleThresholdMs == 15 * 60 * 1000

\* new Date(v).getTime(): the instant of an ISO string or of a number of
\* milliseconds, NaN (Invalid Date) for any other string, array or object
NewDate(v) ==
  CASE v.t = "iso" -> Num(v.ms)
    [] v.t = "num" -> v
    [] v.t = "bool" -> Num(IF v.b THEN 1 ELSE 0)
    [] v.t = "null" -> Num(0)
    [] OTHER -> NaN

\* now - updatedAt
Minus(now, d) == IF d.t = "num" THEN Num(now - d.n) ELSE NaN

\* the threshold compared with >= instead of >
isStaleInclusive(updated_at, now) ==
  IF Truthy(updated_at)
    THEN LET age == Minus(now, NewDate(updated_at))
         IN age.t = "num" /\ age.n >= StaleThresholdMs
    ELSE TRUE

\* updatedAt ? (now - updatedAt) > 15 * 60 * 1000 : true
\* (updatedAt is null when data.updated_at is falsy, a Date otherwise)
isStale(updated_at, now) ==
  IF Truthy(updated_at)
    THEN LET age == Minus(now, NewDate(updated_at))
         IN age.t = "num" /\ age.n > StaleThresholdMs
    ELSE TRUE

\* the age rounded to the nearest minute
ageMinutesRounded(updated_at, now) ==
  IF Truthy(updated_at)
    THEN LET age == Minus(now, NewDate(updated_at))
         IN IF age.t = "num" THEN Num((age.n + 30000) \div 60000) ELSE NaN
    ELSE Null

\* updatedAt ? Math.floor((now - updatedAt) / 60000) : null
ageMinutes(updated_at, now) ==
  IF Truthy(updated_at)
    THEN LET age == Minus(now, NewDate(updated_at))
         IN IF age.t = "num" THEN Num(age.n \div 60000) ELSE NaN
    ELSE Null

\* the projection of one tool record
ToolStatusWith(tool, is_stale) ==
  Obj(<< <<"id", Prop(tool, "id")>>,
         <<"name", Prop(tool, "name")>>,
         <<"has_version", Bool(Truthy(Prop(tool, "latest_version")))>>,
         <<"is_stale", is_stale>>,
         <<"has_error", Bool(Truthy(Prop(tool, "error"))
                             \/ Truthy(Prop(tool, "last_check_error")))>>,
         <<"last_check_at",
           Or(Prop(tool, "last_check_at"), Prop(tool, "updated_at"))>> >>)

\* is_stale made true by a last_check_error as well
toolStatusErrorIsStale(tool) ==
  ToolStatusWith(tool,
    Or(Or(Or(Prop(tool, "is_stale"), Prop(tool, "stale")),
          Bool(Truthy(Prop(tool, "last_check_error")))), Bool(FALSE)))

\* is_stale read from the current field name only
toolStatusNoAlias(tool) ==
  ToolStatusWith(tool, Or(Prop(tool, "is_stale"), Bool(FALSE)))

toolStatus(tool) ==
  Obj(<< <<"id", Prop(tool, "id")>>,
         <<"name", Prop(tool, "name")>>,
         <<"has_version", Bool(Truthy(Prop(tool, "latest_version")))>>,
         <<"is_stale",
           Or(Or(Prop(tool, "is_stale"), Prop(tool, "stale")), Bool(FALSE))>>,
         <<"has_error", Bool(Truthy(Prop(tool, "error"))
                             \/ Truthy(Prop(tool, "last_check_error")))>>,
         <<"last_check_at",
           Or(Prop(tool, "last_check_at"), Prop(tool, "updated_at"))>> >>)

\* data.tools.map(tool => ({...})): reading a property of a null element
\* throws
toolsStatus(tools) ==
  IF \E i \in 1..Len(tools) : Nullish(tools[i]) THEN Throw("TypeError")
  ELSE Return(Arr([i \in 1..Len(tools) |-> toolStatus(tools[i])]))

getHealthBody(loaded, now) ==
  IF loaded.threw THEN loaded
  ELSE IF Nullish(loaded.v) THEN Throw("TypeError")
  ELSE LET data == loaded.v
           updated_at == Prop(data, "updated_at")
           tools == Prop(data, "tools")
       IN IF tools.t # "arr" THEN Throw("TypeError")
          ELSE LET projected == toolsStatus(tools.a)
               IN IF projected.threw THEN projected
                  ELSE Return(Json(200, "", NoHeader,
                    Obj(<< <<"status",
                             IF isStale(updated_at, now) THEN Str("stale")
                             ELSE Or(Prop(data, "status"), Str("ok"))>>,
                           <<"updated_at", updated_at>>,
                           <<"tools_count", Prop(tools, "length")>>,
                           <<"age_minutes", ageMinutes(updated_at, now)>>,
                           <<"tools", projected.v>> >>)))

getHealth(loaded, now) ==
  LET body == getHealthBody(loaded, now)
  IN TryCatch(body,
       Obj(<< <<"status", Str("error")>>, <<"error", body.v>> >>))

(***************************************************************************)
(* Refresh cycle (scripts/update-versions)                                 *)
(***************************************************************************)
\* bounds of the model
NumTools == 2
MaxCycles == 2
\* tokens of a text that are written when a save is interrupted
PartialTokens == 1

\* instants (ms) the wall clock is read at
T0 == 1000000
Instants == {T0 + 840000, T0 + 900000, T0 + 959999, T0 + 960000}
\* the clock reading that follows the reading t
NextInstant(t) ==
  IF \A i \in Instants : i <= t THEN t
  ELSE CHOOSE i \in Instants : i > t /\ \A j \in Instants : j > t => i <= j

ToolId(i) == "tool-" \o ToString(i)
ToolName(i) == "Tool " \o ToString(i)
TrackedTools == 1..NumTools

\* what the fetcher adapter answers for one tool
FetchOk(version) == [ok |-> TRUE, s |-> version]
FetchError(description) == [ok |-> FALSE, s |-> description]
FetchResults == {FetchOk("2.0.0"), FetchError("timeout")}

\* the record of tool id in a loaded snapshot, undefined if there is none
previousRecord(prev, id) ==
  LET tools == IF Nullish(prev) THEN Undef ELSE Prop(prev, "tools")
  IN IF tools.t # "arr" THEN Undef
     ELSE LET hits == {i \in 1..Len(tools.a) :
                         /\ tools.a[i].t = "obj"
                         /\ Prop(tools.a[i], "id") = Str(id)}
          IN IF hits = {} THEN Undef
             ELSE tools.a[CHOOSE i \in hits : \A j \in hits : i <= j]

\* is the previous successful check older than the staleness threshold
\* (no known successful check counts as older)
previousCheckIsOld(old, now) ==
  IF Nullish(old) THEN TRUE
  ELSE IF Truthy(Prop(old, "last_check_error"))
    THEN Truthy(Or(Prop(old, "is_stale"), Prop(old, "stale")))
  ELSE LET age == Minus(now, NewDate(Prop(old, "last_check_at")))
       IN ~(age.t = "num" /\ age.n <= StaleThresholdMs)

\* a failed fetch wipes the version known before
mergeToolForgets(prev, i, result, now) ==
  Obj(<< <<"id", Str(ToolId(i))>>, <<"name", Str(ToolName(i))>>,
         <<"latest_version", IF result.ok THEN Str(result.s) ELSE Null>>,
         <<"last_check_at", Iso(now)>>,
         <<"last_check_error", IF result.ok THEN Undef ELSE Str(result.s)>>,
         <<"is_stale", Bool(~result.ok)>> >>)

\* merge policy for one tool
mergeTool(prev, i, result, now) ==
  LET old == previousRecord(prev, ToolId(i))
  IN IF result.ok
       THEN Obj(<< <<"id", Str(ToolId(i))>>, <<"name", Str(ToolName(i))>>,
                   <<"latest_version", Str(result.s)>>,
                   <<"last_check_at", Iso(now)>>,
                   <<"is_stale", Bool(FALSE)>> >>)
       ELSE Obj(<< <<"id", Str(ToolId(i))>>, <<"name", Str(ToolName(i))>>,
                   <<"latest_version",
                     IF Nullish(old) THEN Undef
                     ELSE Prop(old, "latest_version")>>,
                   <<"last_check_at", Iso(now)>>,
                   <<"last_check_error", Str(result.s)>>,
                   <<"is_stale", Bool(previousCheckIsOld(old, now))>> >>)

\* cycle-level status of a snapshot that is about to be written
cycleStatus(tools, now) ==
  IF \E i \in 1..Len(tools) :
       LET age == Minus(now, NewDate(Prop(tools[i], "last_check_at")))
       IN age.t = "num" /\ age.n > StaleThresholdMs
    THEN Str("stale") ELSE Str("ok")

\* the snapshot of one cycle: one record per tracked tool, in configuration
\* order
mergeSnapshot(prev, results, now) ==
  LET tools == [i \in TrackedTools |-> mergeTool(prev, i, results[i], now)]
  IN Obj(<< <<"tools", Arr(tools)>>, <<"updated_at", Iso(now)>>,
            <<"status", cycleStatus(tools, now)>> >>)

\* the temporary file of cycle c
TmpPath(c) == "versions.json.tmp." \o ToString(c)
Paths == {VERSIONS_FILE, UPDATE_FILE} \cup {TmpPath(c) : c \in 1..MaxCycles}

\* the text written straight into the snapshot file
saveWriteInPlace(disk, c, text, n) ==
  [disk EXCEPT ![VERSIONS_FILE] = File(SubSeq(text, 1, n)),
               ![TmpPath(c)] = File(SubSeq(text, 1, n))]

\* save, step 1 (repeated): the first n tokens of the text are in the
\* temporary file
saveWrite(disk, c, text, n) ==
  [disk EXCEPT ![TmpPath(c)] = File(SubSeq(text, 1, n))]
\* save, step 2: the temporary file replaces the snapshot in one rename
saveRename(disk, c) ==
  [disk EXCEPT ![VERSIONS_FILE] = disk[TmpPath(c)], ![TmpPath(c)] = Absent]

(***************************************************************************)
(* Documents the data directory may hold when the process starts           *)
(***************************************************************************)
ToolRecord(i, flagName, flag, error) ==
  Obj(<< <<"id", Str(ToolId(i))>>, <<"name", Str(ToolName(i))>>,
         <<"latest_version", Str("1.0.0")>>,
         <<"last_check_at", Iso(T0)>>,
         <<"last_check_error", error>>,
         <<flagName, flag>> >>)

Snapshot(tools, updated_at, status) ==
  Obj(<< <<"tools", tools>>, <<"updated_at", updated_at>>,
         <<"status", status>> >>)

\* a snapshot as a refresh cycle leaves it
GoodSnapshot ==
  Snapshot(Arr(<<ToolRecord(1, "is_stale", Bool(FALSE), Undef),
                 ToolRecord(2, "is_stale", Bool(FALSE), Undef)>>),
           Iso(T0), Str("ok"))

VersionDocs ==
  { GoodSnapshot,
    \* a legacy record next to a current one
    Snapshot(Arr(<<ToolRecord(1, "is_stale", Bool(TRUE), Undef),
                   ToolRecord(2, "stale", Bool(TRUE), Undef)>>),
             Iso(T0), Str("ok")),
    \* failed checks, flagged and not flagged; cycle status stale
    Snapshot(Arr(<<ToolRecord(1, "is_stale", Bool(FALSE), Str("timeout")),
                   ToolRecord(2, "stale", Bool(TRUE), Str("timeout"))>>),
             Iso(T0), Str("stale")),
    \* no status stored; no flag stored, cycle status error
    Snapshot(Arr(<<ToolRecord(1, "stale", Bool(FALSE), Undef)>>),
             Iso(T0), Undef),
    Snapshot(Arr(<<ToolRecord(2, "is_stale", Undef, Str("HTTP 500"))>>),
             Iso(T0), Str("error")),
    \* no timestamp, an empty one, one that is no date, one in milliseconds
    Snapshot(Arr(<<>>), Null, Str("ok")),
    Snapshot(Arr(<<>>), Undef, Str("ok")),
    Snapshot(Arr(<<>>), Str(""), Str("ok")),
    Snapshot(Arr(<<>>), Str("yesterday"), Str("ok")),
    Snapshot(Arr(<<>>), Num(T0), Str("ok")),
    \* documents that parse but are no snapshot
    Obj(<<>>),
    Null,
    Snapshot(Str("none"), Iso(T0), Str("ok")),
    Snapshot(Arr(<<Null>>), Iso(T0), Str("ok")) }

GoodUpdateInfo ==
  Obj(<< <<"version", Str("1.2.0")>>,
         <<"update", Obj(<< <<"darwin", Str("https://dl/1.2.0.dmg")>> >>)>>,
         <<"release_notes", Str("fixes")>>, <<"required", Bool(TRUE)>>,
         <<"updated_at", Iso(T0)>> >>)

UpdateDocs == {GoodUpdateInfo, Obj(<<>>)}

\* a text cut in the middle, and a text that never was JSON
Truncated(doc) ==
  LET text == JSONstringify(doc) IN File(SubSeq(text, 1, Len(text) \div 2))
Garbage == File(<<RBrace, Str("versions")>>)

VersionFiles ==
  {File(JSONstringify(d)) : d \in VersionDocs}
    \cup {Absent, Unreadable, Truncated(GoodSnapshot), Garbage, File(<<>>)}

UpdateFiles ==
  {File(JSONstringify(d)) : d \in UpdateDocs}
    \cup {Absent, Unreadable, Truncated(GoodUpdateInfo)}

(***************************************************************************)
(* Documents handed to generateETag                                        *)
(***************************************************************************)
\* the same object with its members in the opposite order, as a file whose
\* fields were written in another order parses
ReverseMembers(v) ==
  IF v.t = "obj"
    THEN Obj([i \in 1..Len(v.o) |-> v.o[Len(v.o) + 1 - i]])
    ELSE v

\* documents as JSON.parse or a fallback yields them (no undefined member)
FingerprintBase ==
  { FallbackVersions, FallbackUpdateInfo, GoodUpdateInfo,
    Obj(SetProp(GoodUpdateInfo.o, "required", Bool(FALSE))),
    Obj(SetProp(GoodUpdateInfo.o, "version", Str("1.2.1"))),
    Obj(SetProp(FallbackVersions.o, "status", Str("ok"))),
    Obj(<<>>),
    Obj(<< <<"tools", Arr(<<>>)>> >>) }

FingerprintDocs ==
  FingerprintBase \cup {ReverseMembers(d) : d \in FingerprintBase}

(***************************************************************************)
(* Guideline synchronisation (scripts/ensure-guidelines-sync.mjs)          *)
(*                                                                         *)
(* A text is a sequence of tokens: the fence "---", the line ends "\n" and *)
(* "\r", the blank " ", and words that hold none of these.                 *)
(***************************************************************************)
Fence == "---"
LF == "\n"
CR == "\r"
SP == " "
Whitespace == {LF, CR, SP}

FILES == <<"AGENTS.md", "CLAUDE.md">>
FileNames == {FILES[i] : i \in 1..Len(FILES)}
\* a.fileName < b.fileName, the order of JavaScript strings on FILES
NameLess(a, b) ==
  LET rank == [f \in FileNames |-> IF f = "AGENTS.md" THEN 1 ELSE 2]
  IN rank[a] < rank[b]

ModeArgs == {"--fix", "--mode=fix", "--check", "--mode=check"}
\* the first argument that names a mode decides, 'check' if there is none
parseMode(args) ==
  LET hits == {i \in 1..Len(args) : args[i] \in ModeArgs}
  IN IF hits = {} THEN "check"
     ELSE LET arg == args[CHOOSE i \in hits : \A j \in hits : i <= j]
          IN IF arg \in {"--fix", "--mode=fix"} THEN "fix" ELSE "check"

\* /^---\r?\n/: the index of the "\n" that ends the opening line, 0 if the
\* text does not open with a fence line
OpeningEnd(content) ==
  IF Len(content) >= 2 /\ content[1] = Fence /\ content[2] = LF THEN 2
  ELSE IF /\ Len(content) >= 3
          /\ content[1] = Fence /\ content[2] = CR /\ content[3] = LF THEN 3
  ELSE 0
\* /\r?\n---/ tried at index j: the index of its fence, 0 if it fails
ClosingAt(content, j) ==
  IF /\ j + 2 <= Len(content)
     /\ content[j] = CR /\ content[j + 1] = LF /\ content[j + 2] = Fence
    THEN j + 2
  ELSE IF j + 1 <= Len(content) /\ content[j] = LF /\ content[j + 1] = Fence
    THEN j + 1
  ELSE 0
\* /\r?\n?/ after the closing fence at index k: the last index matched
ClosingEnd(content, k) ==
  LET r == IF k + 1 <= Len(content) /\ content[k + 1] = CR THEN k + 1 ELSE k
  IN IF r + 1 <= Len(content) /\ content[r + 1] = LF THEN r + 1 ELSE r
\* content.match(/^---\r?\n[\s\S]*?\r?\n---\r?\n?/): the length of match[0],
\* 0 for no match; the lazy [\s\S]*? stops at the first closing fence line
MatchLength(content) ==
  LET open == OpeningEnd(content)
      ends == IF open = 0 THEN {}
              ELSE {j \in (open + 1)..Len(content) : ClosingAt(content, j) # 0}
  IN IF ends = {} THEN 0
     ELSE ClosingEnd(content,
            ClosingAt(content, CHOOSE j \in ends : \A i \in ends : j <= i))

splitFrontmatter(content) ==
  LET n == IF content # <<>> /\ content[1] = Fence
             THEN MatchLength(content) ELSE 0
  IN IF n > 0
       THEN [frontmatter |-> SubSeq(content, 1, n),
             body |-> SubSeq(content, n + 1, Len(content))]
       ELSE [frontmatter |-> <<>>, body |-> content]

\* body.replace(/\r\n/g, '\n'): one pass from the left
RECURSIVE ReplaceCRLF(_)
ReplaceCRLF(body) ==
  IF body = <<>> THEN <<>>
  ELSE IF Len(body) >= 2 /\ body[1] = CR /\ body[2] = LF
    THEN <<LF>> \o ReplaceCRLF(SubSeq(body, 3, Len(body)))
  ELSE <<body[1]>> \o ReplaceCRLF(Tail(body))
\* String.prototype.trim
Trim(body) ==
  LET kept == {i \in 1..Len(body) : body[i] \notin Whitespace}
  IN IF kept = {} THEN <<>>
     ELSE SubSeq(body, CHOOSE i \in kept : \A j \in kept : i <= j,
                       CHOOSE i \in kept : \A j \in kept : i >= j)

normalizeBody(body) == Trim(ReplaceCRLF(body))

bodiesMatch(a, b) == a = b

\* what a name of the working directory holds
NoFile == [exists |-> FALSE, content |-> <<>>, mtimeMs |-> 0]
TextFile(content, mtimeMs) ==
  [exists |-> TRUE, content |-> content, mtimeMs |-> mtimeMs]

\* readFileSync + statSync; a missing file (ENOENT) gives the empty record
readGuidelineFile(dir, fileName) ==
  IF dir[fileName].exists
    THEN LET parts == splitFrontmatter(dir[fileName].content)
         IN [fileName |-> fileName, exists |-> TRUE,
             frontmatter |-> parts.frontmatter, body |-> parts.body,
             bodyNormalized |-> normalizeBody(parts.body),
             mtimeMs |-> dir[fileName].mtimeMs]
    ELSE [fileName |-> fileName, exists |-> FALSE,
          frontmatter |-> <<>>, body |-> <<>>,
          bodyNormalized |-> <<>>, mtimeMs |-> 0]

\* existing.reduce(...): the latest mtimeMs wins, the smaller name on a tie
RECURSIVE reduceLatest(_, _)
reduceLatest(latest, rest) ==
  IF rest = <<>> THEN latest
  ELSE LET current == Head(rest)
       IN reduceLatest(
            IF current.mtimeMs > latest.mtimeMs THEN current
            ELSE IF current.mtimeMs = latest.mtimeMs
              THEN (IF NameLess(current.fileName, latest.fileName)
                      THEN current ELSE latest)
            ELSE latest,
            Tail(rest))
selectBaseline(existing) ==
  IF existing = <<>> THEN Null
  ELSE reduceLatest(Head(existing), Tail(existing))

\* the text writeFile(filePath, frontmatter, body) writes
written(frontmatter, body) ==
  LET normalizedBody == normalizeBody(body)
      finalBody == IF normalizedBody # <<>> THEN normalizedBody \o <<LF>>
                   ELSE <<>>
      hasFrontmatter == frontmatter # <<>>
      needsNewline ==
        hasFrontmatter /\ frontmatter[Len(frontmatter)] # LF
      prefix == IF hasFrontmatter
                  THEN frontmatter \o (IF needsNewline THEN <<LF>> ELSE <<>>)
                  ELSE <<>>
  IN prefix \o finalBody
\* writeFileSync at the instant t
writeFile(dir, fileName, frontmatter, body, t) ==
  [dir EXCEPT ![fileName] = TextFile(written(frontmatter, body), t)]

\* the loop over records: acc is the working directory and the two flags
RECURSIVE syncRecords(_, _, _, _, _)
syncRecords(records, baseline, MODE, t, acc) ==
  IF records = <<>> THEN acc
  ELSE LET record == Head(records)
           fixed == writeFile(acc.dir, record.fileName, record.frontmatter,
                              baseline.body, t)
           next ==
             IF ~record.exists
               THEN [acc EXCEPT !.hasMissing = TRUE,
                                !.dir = IF MODE = "fix" THEN fixed ELSE @]
             ELSE IF ~bodiesMatch(baseline.bodyNormalized,
                                  record.bodyNormalized)
               THEN (IF MODE = "fix" THEN [acc EXCEPT !.dir = fixed]
                     ELSE [acc EXCEPT !.hasConflict = TRUE])
             ELSE acc
       IN syncRecords(Tail(records), baseline, MODE, t, next)

\* the script without its exit on a missing file
mainIgnoresMissing(dir, args, t) ==
  LET MODE == parseMode(args)
      records == [i \in 1..Len(FILES) |-> readGuidelineFile(dir, FILES[i])]
      existingRecords == SelectSeq(records, LAMBDA r : r.exists)
      baseline == selectBaseline(existingRecords)
  IN IF baseline = Null THEN [dir |-> dir, code |-> 1]
     ELSE LET out == syncRecords(records, baseline, MODE, t,
                       [dir |-> dir, hasConflict |-> FALSE,
                        hasMissing |-> FALSE])
          IN [dir |-> out.dir,
              code |-> IF out.hasConflict THEN 1 ELSE 0]

\* the script from its first line to its exit: the working directory it
\* leaves and its exit code
main(dir, args, t) ==
  LET MODE == parseMode(args)
      records == [i \in 1..Len(FILES) |-> readGuidelineFile(dir, FILES[i])]
      existingRecords == SelectSeq(records, LAMBDA r : r.exists)
      baseline == selectBaseline(existingRecords)
  IN IF baseline = Null THEN [dir |-> dir, code |-> 1]
     ELSE LET out == syncRecords(records, baseline, MODE, t,
                       [dir |-> dir, hasConflict |-> FALSE,
                        hasMissing |-> FALSE])
          IN [dir |-> out.dir,
              code |-> IF out.hasConflict THEN 1
                       ELSE IF out.hasMissing /\ MODE = "check" THEN 1
                       ELSE 0]

\* runs of the script the model follows
MaxRuns == 2

\* guideline texts: plain bodies, bodies behind a frontmatter, line ends of
\* both kinds, a fence that is not on the first line, an unclosed fence
GuidelineTexts ==
  { <<"a", LF>>,
    <<"b">>,
    <<"a", CR, LF>>,
    <<Fence, LF, "t", LF, Fence, LF, "a", LF>>,
    <<Fence, LF, "u", LF, Fence, LF, LF, "b", LF>>,
    <<Fence, CR, LF, "t", CR, LF, Fence>>,
    <<LF, Fence, LF, "t", LF, Fence, LF, "b">>,
    <<"a", CR, CR, LF, "b">>,
    <<Fence, "a">>,
    <<>> }
\* command lines
ArgLists ==
  { <<>>, <<"--fix">>, <<"--mode=fix">>, <<"--check">>, <<"--mode=check">>,
    <<"--verbose", "--fix", "--check">>, <<"--verbose">> }

(***************************************************************************)
(* State                                                                   *)
(***************************************************************************)
VARIABLES
  disk,           \* path -> what the data directory holds there
  enableCron,     \* process.env.ENABLE_CRON !== 'false'
  proc,           \* "stopped" or "running" (listening)
  scheduled,      \* the cron task of this process is registered
  cycles,         \* the calls of updateVersions so far, in call order
  clock,          \* the instant of the updater's last clock reading
  resp,           \* the last request handled and its response
  lastCommitted,  \* the text of the last snapshot saved completely (<<>>:
                  \* none yet)
  docs,           \* the two documents generateETag is applied to
  etags,          \* their fingerprints, <<>> before the application
  cwd,            \* the guideline files of the working directory
  fsClock,        \* the instant (ms) of the last run of the script
  runs            \* the runs of the script so far: mode and exit code

\* the state of the server process and its data directory
server == <<disk, enableCron, proc, scheduled, cycles, clock, resp,
            lastCommitted>>
\* what the server never reads or writes
aside == <<docs, etags, cwd, fsClock, runs>>

vars == <<disk, enableCron, proc, scheduled, cycles, clock, resp,
          lastCommitted, docs, etags, cwd, fsClock, runs>>

NoRequest ==
  [route |-> "none", inm |-> NoHeader, id |-> "", now |-> 0, res |-> Uncaught]

\* between two turns of the event loop no request is being answered
Idle == resp = NoRequest

InitDisk(versions, update) ==
  [p \in Paths |-> IF p = VERSIONS_FILE THEN versions
                   ELSE IF p = UPDATE_FILE THEN update
                   ELSE Absent]

\* nothing but the server is under study
FingerprintIdle ==
  /\ docs = <<Null, Null>>
  /\ etags = <<>>
ScriptIdle ==
  /\ cwd = [f \in FileNames |-> NoFile]
  /\ fsClock = 0
  /\ runs = <<>>
AsideIdle == FingerprintIdle /\ ScriptIdle

InitWith(versionFiles, updateFiles, cron) ==
  /\ AsideIdle
  /\ \E v \in versionFiles, u \in updateFiles : disk = InitDisk(v, u)
  /\ enableCron \in cron
  /\ proc = "stopped"
  /\ scheduled = FALSE
  /\ cycles = <<>>
  /\ clock = T0
  /\ resp = NoRequest
  /\ lastCommitted =
       LET text == readFile(disk, VERSIONS_FILE)
       IN IF text.threw \/ JSONparse(text.v).threw THEN <<>> ELSE text.v

\* the service with its updater: the data directory is empty, holds a
\* snapshot of an earlier run, or holds a damaged one
Init ==
  InitWith({Absent, File(JSONstringify(GoodSnapshot))},
           {File(JSONstringify(GoodUpdateInfo))}, BOOLEAN)

(***************************************************************************)
(* Process start, scheduling, termination                                  *)
(***************************************************************************)
Running(c) == cycles[c].pc \notin {"done", "failed", "killed"}

\* the model follows MaxCycles calls of updateVersions
CanCall == Len(cycles) < MaxCycles

\* the call updateVersions(): a new cycle, about to fetch
NoResults == [i \in TrackedTools |-> FetchError("")]
NewCycle ==
  [pc |-> "fetch", results |-> NoResults, snapshot |-> Undef]
\* a cycle that is over: nothing of it is left in memory
Ended(how) == [NewCycle EXCEPT !.pc = how]

\* start() without the test of ENABLE_CRON
startIgnoresToggle ==
  /\ Idle
  /\ proc = "stopped"
  /\ CanCall
  /\ proc' = "running"
  /\ scheduled' = TRUE
  /\ cycles' = Append(cycles, NewCycle)
  /\ UNCHANGED <<aside, disk, enableCron, clock, resp, lastCommitted>>

\* start(): listen, then - unless ENABLE_CRON is 'false' - run one cycle at
\* once and register the cron task
start ==
  /\ Idle
  /\ proc = "stopped"
  /\ enableCron => CanCall
  /\ proc' = "running"
  /\ scheduled' = enableCron
  /\ cycles' = IF enableCron THEN Append(cycles, NewCycle) ELSE cycles
  /\ UNCHANGED <<aside, disk, enableCron, clock, resp, lastCommitted>>

\* the callback of cron.schedule('*/10 * * * *', ...)
cronTick ==
  /\ Idle
  /\ proc = "running"
  /\ scheduled
  /\ CanCall
  /\ cycles' = Append(cycles, NewCycle)
  /\ UNCHANGED <<aside, disk, enableCron, proc, scheduled, clock, resp,
                 lastCommitted>>

\* SIGTERM, SIGINT or a kill: process.exit, everything in flight is gone,
\* the files stay as they are
terminate ==
  /\ Idle
  /\ proc = "running"
  /\ proc' = "stopped"
  /\ scheduled' = FALSE
  /\ cycles' = [c \in 1..Len(cycles) |->
                  IF Running(c) THEN Ended("killed")
                  ELSE cycles[c]]
  /\ UNCHANGED <<aside, disk, enableCron, clock, resp, lastCommitted>>

(***************************************************************************)
(* The steps of one refresh cycle                                          *)
(***************************************************************************)
\* every tracked tool has been fetched; the answers are merged into the
\* snapshot that is on disk now, and the save begins: the first tokens of
\* the text are in the temporary file
cycleFetch(c) ==
  /\ Idle
  /\ proc = "running"
  /\ cycles[c].pc = "fetch"
  /\ clock' = NextInstant(clock)
  /\ \E results \in [TrackedTools -> FetchResults] :
       LET snapshot == mergeSnapshot(loadVersions(disk).v, results, clock')
           text == JSONstringify(snapshot)
       IN /\ cycles' = [cycles EXCEPT ![c].pc = "save",
                                      ![c].results = results,
                                      ![c].snapshot = snapshot]
          /\ disk' = saveWrite(disk, c, text, PartialTokens)
  /\ UNCHANGED <<aside, enableCron, proc, scheduled, resp, lastCommitted>>

\* the save ends: the rest of the text is written, the file is renamed
cycleSave(c) ==
  /\ Idle
  /\ proc = "running"
  /\ cycles[c].pc = "save"
  /\ LET text == JSONstringify(cycles[c].snapshot)
     IN disk' = saveRename(saveWrite(disk, c, text, Len(text)), c)
  /\ cycles' = [cycles EXCEPT ![c] = Ended("done")]
  /\ lastCommitted' = JSONstringify(cycles[c].snapshot)
  /\ UNCHANGED <<aside, enableCron, proc, scheduled, clock, resp>>

\* the rejection is not caught: the process dies of it
cycleFailCrashes(c) ==
  /\ Idle
  /\ proc = "running"
  /\ cycles[c].pc = "save"
  /\ proc' = "stopped"
  /\ scheduled' = FALSE
  /\ cycles' = [d \in 1..Len(cycles) |->
                  IF d = c THEN Ended("failed")
                  ELSE IF Running(d) THEN Ended("killed")
                  ELSE cycles[d]]
  /\ UNCHANGED <<aside, disk, enableCron, clock, resp, lastCommitted>>

\* the save fails: updateVersions rejects, the caller's catch logs it
cycleFail(c) ==
  /\ Idle
  /\ proc = "running"
  /\ cycles[c].pc = "save"
  /\ cycles' = [cycles EXCEPT ![c] = Ended("failed")]
  /\ UNCHANGED <<aside, disk, enableCron, proc, scheduled, clock, resp,
                 lastCommitted>>

updateVersions ==
  \E c \in 1..Len(cycles) :
    \/ cycleFetch(c)
    \/ cycleSave(c)
    \/ cycleFail(c)

(***************************************************************************)
(* Requests                                                                *)
(***************************************************************************)
\* validators a client may present for a document
Validators(data) ==
  LET etag == generateETag(data)
  IN {NoHeader, StarHeader, QuoteETag(etag), TagHeader(FALSE, FALSE, etag),
      TagHeader(TRUE, TRUE, etag), QuoteETag(generateETag(Obj(<<>>)))}

RequestIds == {ToolId(1), ToolId(2), "unknown"}

\* a handler that calls updateVersions() before it answers
HandledRefreshing(r) ==
  /\ resp' = r
  /\ cycles' = IF CanCall THEN Append(cycles, NewCycle) ELSE cycles
  /\ UNCHANGED <<aside, disk, enableCron, proc, scheduled, clock,
                 lastCommitted>>

\* a handler runs to its response in one turn of the event loop; resp is
\* the request answered in the current turn
Handled(r) ==
  /\ resp' = r
  /\ UNCHANGED <<aside, disk, enableCron, proc, scheduled, cycles, clock,
                 lastCommitted>>

GetTools ==
  /\ proc = "running"
  /\ Idle
  /\ LET loaded == loadVersions(disk)
     IN \E inm \in Validators(loaded.v) :
          Handled([NoRequest EXCEPT !.route = "tools", !.inm = inm,
                                    !.res = getTools(loaded, inm)])

GetTool ==
  /\ proc = "running"
  /\ Idle
  /\ LET loaded == loadVersions(disk)
     IN \E id \in RequestIds :
          Handled([NoRequest EXCEPT !.route = "tool", !.id = id,
                                    !.res = getTool(loaded, id)])

GetUpdate ==
  /\ proc = "running"
  /\ Idle
  /\ LET loaded == loadUpdateInfo(disk)
     IN \E inm \in Validators(loaded.v) :
          Handled([NoRequest EXCEPT !.route = "update", !.inm = inm,
                                    !.res = getUpdate(loaded, inm)])

\* the request is handled at or after the updater's last clock reading
GetHealth ==
  /\ proc = "running"
  /\ Idle
  /\ LET loaded == loadVersions(disk)
     IN \E now \in Instants :
          /\ now >= clock
          /\ Handled([NoRequest EXCEPT !.route = "health", !.now = now,
                                       !.res = getHealth(loaded, now)])

\* the turn ends with the response handed to the socket
endTurn ==
  /\ resp # NoRequest
  /\ resp' = NoRequest
  /\ UNCHANGED <<aside, disk, enableCron, proc, scheduled, cycles, clock,
                 lastCommitted>>

Next ==
  \/ start
  \/ cronTick
  \/ terminate
  \/ updateVersions
  \/ GetTools
  \/ GetTool
  \/ GetUpdate
  \/ GetHealth
  \/ endTurn

Spec == Init /\ [][Next]_vars

\* the updater alone, no request arriving
NextUpdate ==
  \/ start
  \/ cronTick
  \/ terminate
  \/ updateVersions

SpecUpdate == Init /\ [][NextUpdate]_vars

(***************************************************************************)
(* The read path alone (ENABLE_CRON = 'false'), over every document the    *)
(* data directory may hold                                                 *)
(***************************************************************************)
InitRead == InitWith(VersionFiles, UpdateFiles, {FALSE})

NextRead ==
  \/ start
  \/ GetTools
  \/ GetTool
  \/ GetUpdate
  \/ GetHealth
  \/ endTurn

SpecRead == InitRead /\ [][NextRead]_vars

(***************************************************************************)
(* The server with its updater, serving clients that hold no cached copy   *)
(***************************************************************************)
\* GET /api/v1/tools without If-None-Match
GetToolsFirst ==
  /\ proc = "running"
  /\ Idle
  /\ Handled([NoRequest EXCEPT
               !.route = "tools",
               !.res = getTools(loadVersions(disk), NoHeader)])

\* GET /api/v1/update without If-None-Match
GetUpdateFirst ==
  /\ proc = "running"
  /\ Idle
  /\ Handled([NoRequest EXCEPT
               !.route = "update",
               !.res = getUpdate(loadUpdateInfo(disk), NoHeader)])

\* the process starts over the documents an earlier run has persisted
InitServe ==
  InitWith({File(JSONstringify(GoodSnapshot))},
           {File(JSONstringify(GoodUpdateInfo))}, {TRUE})

NextServe ==
  \/ start
  \/ cronTick
  \/ terminate
  \/ updateVersions
  \/ GetToolsFirst
  \/ GetUpdateFirst
  \/ endTurn

SpecServe == InitServe /\ [][NextServe]_vars

(***************************************************************************)
(* generateETag applied to two documents                                   *)
(***************************************************************************)
\* the server is not running and its data directory is empty
ServerOff ==
  /\ disk = InitDisk(Absent, Absent)
  /\ enableCron = FALSE
  /\ proc = "stopped"
  /\ scheduled = FALSE
  /\ cycles = <<>>
  /\ clock = T0
  /\ resp = NoRequest
  /\ lastCommitted = <<>>

InitFingerprint ==
  /\ ServerOff
  /\ ScriptIdle
  /\ docs \in FingerprintDocs \X FingerprintDocs
  /\ etags = <<>>

fingerprint ==
  /\ etags = <<>>
  /\ etags' = <<generateETag(docs[1]), generateETag(docs[2])>>
  /\ UNCHANGED <<server, docs, cwd, fsClock, runs>>

NextFingerprint == fingerprint

SpecFingerprint == InitFingerprint /\ [][NextFingerprint]_vars

(***************************************************************************)
(* Runs of ensure-guidelines-sync in one working directory                 *)
(***************************************************************************)
\* each name holds no file or one of the texts, last modified at instant 1
\* or 2; the clock stands at 2
InitSync ==
  /\ ServerOff
  /\ FingerprintIdle
  /\ cwd \in [FileNames ->
                {NoFile} \cup {TextFile(c, m) : c \in GuidelineTexts,
                                                m \in {1, 2}}]
  /\ fsClock = 2
  /\ runs = <<>>

\* one run of the script, in the same millisecond as the last change or
\* later; nothing else touches the files
ensureGuidelinesSync ==
  /\ Len(runs) < MaxRuns
  /\ \E args \in ArgLists, t \in {fsClock, fsClock + 1} :
       LET out == main(cwd, args, t)
       IN /\ cwd' = out.dir
          /\ runs' = Append(runs, [mode |-> parseMode(args),
                                   code |-> out.code])
          /\ fsClock' = t
  /\ UNCHANGED <<server, docs, etags>>

NextSync == ensureGuidelinesSync

SpecSync == InitSync /\ [][NextSync]_vars

(***************************************************************************)
(* Properties                                                              *)
(***************************************************************************)
RunningCycles == {c \in 1..Len(cycles) : Running(c)}

\* C1: updater cycles never overlap - at most one cycle is running at any
\* time, a tick that fires while a cycle runs starts no new one.
\* (Violated: start and the cron callback call updateVersions() whether or
\* not an earlier call is still running.)
C1_CyclesNeverOverlap == Cardinality(RunningCycles) <= 1

\* the texts of the model that are no JSON
Malformed(file) ==
  file \in {Truncated(GoodSnapshot), Truncated(GoodUpdateInfo), Garbage,
            File(<<>>)}
\* the file holds a document
Stored(path) == disk[path].k = "file" /\ ~Malformed(disk[path])
\* the file cannot be loaded: absent, unreadable or malformed
Failing(path) == disk[path].k # "file" \/ Malformed(disk[path])

RoutePath == IF resp.route = "update" THEN UPDATE_FILE ELSE VERSIONS_FILE

C3_CrashSafe ==
  lastCommitted # <<>> =>
    /\ ~loadVersions(disk).threw
    /\ JSONstringify(loadVersions(disk).v) = lastCommitted
    /\ loadVersions(disk).v # FallbackVersions

\* the process was terminated in the middle of a save
C3_Witness ==
  /\ proc = "stopped"
  /\ lastCommitted # <<>>
  /\ \E c \in 1..Len(cycles) :
       /\ cycles[c].pc = "killed"
       /\ disk[TmpPath(c)].k = "file"
       /\ JSONparse(disk[TmpPath(c)].text).threw

Failed(results) == {i \in TrackedTools : ~results[i].ok}

\* the record with this id in a snapshot (undefined if there is none)
RecordOf(snapshot, id) ==
  LET tools == Prop(snapshot, "tools")
  IN IF tools.t = "arr" /\ \E i \in 1..Len(tools.a) :
                             Prop(tools.a[i], "id") = Str(id)
       THEN tools.a[CHOOSE i \in 1..Len(tools.a) :
                      Prop(tools.a[i], "id") = Str(id)]
       ELSE Undef

\* what the isolation property asks of the snapshot of a cycle in which
\* exactly one fetch failed
Isolated(snapshot, results, before) ==
  LET tools == Prop(snapshot, "tools")
  IN /\ tools.t = "arr"
     /\ Len(tools.a) = NumTools
     /\ \A i \in TrackedTools :
          LET record == tools.a[i]
              old == RecordOf(before, ToolId(i))
          IN /\ Prop(record, "id") = Str(ToolId(i))
             /\ results[i].ok =>
                  /\ Prop(record, "latest_version") = Str(results[i].s)
                  /\ ~Truthy(Prop(record, "last_check_error"))
             /\ ~results[i].ok =>
                  /\ Truthy(Prop(record, "last_check_error"))
                  /\ Prop(record, "latest_version") =
                       (IF old = Undef THEN Undef
                        ELSE Prop(old, "latest_version"))

\* C4: per-tool isolation - a cycle in which exactly one of the N fetches
\* failed merges a snapshot with N entries, N-1 of them with the fetched
\* latest_version and no error, one with a last_check_error and the
\* latest_version it had before; and that snapshot is what the cycle saves.
C4_Isolation ==
  [][\A c \in 1..Len(cycles) :
       /\ (/\ cycles[c].pc = "fetch"
           /\ cycles'[c].pc = "save"
           /\ Cardinality(Failed(cycles'[c].results)) = 1)
          => Isolated(cycles'[c].snapshot, cycles'[c].results,
                      loadVersions(disk).v)
       /\ (cycles[c].pc = "save" /\ cycles'[c].pc = "done")
          => disk'[VERSIONS_FILE] = File(JSONstringify(cycles[c].snapshot))
    ]_vars

\* a cycle with one failed fetch has saved its snapshot: the failed tool
\* kept version 1.0.0, the other one moved to 2.0.0
C4_Witness ==
  /\ lastCommitted # <<>>
  /\ disk[VERSIONS_FILE] = File(lastCommitted)
  /\ LET saved == JSONparse(lastCommitted).v
     IN \E i \in TrackedTools :
          /\ Truthy(Prop(RecordOf(saved, ToolId(i)), "last_check_error"))
          /\ Prop(RecordOf(saved, ToolId(i)), "latest_version") = Str("1.0.0")
          /\ \A j \in TrackedTools \ {i} :
               /\ Prop(RecordOf(saved, ToolId(j)), "latest_version")
                    = Str("2.0.0")
               /\ ~Truthy(Prop(RecordOf(saved, ToolId(j)),
                               "last_check_error"))

\* {tools: [], updated_at: null, status: "error"}
EmptySnapshot ==
  Obj(<< <<"tools", Arr(<<>>)>>, <<"updated_at", Null>>,
         <<"status", Str("error")>> >>)
EmptySnapshotText ==
  <<LBrace, Str("tools"), Colon, LBrack, RBrack, Comma,
    Str("updated_at"), Colon, Null, Comma,
    Str("status"), Colon, Str("error"), RBrace>>
\* {version: null, update: {}, release_notes: "", required: false,
\*  updated_at: null}
EmptyUpdateInfo ==
  Obj(<< <<"version", Null>>, <<"update", Obj(<<>>)>>,
         <<"release_notes", Str("")>>, <<"required", Bool(FALSE)>>,
         <<"updated_at", Null>> >>)

\* the body of the response, read as JSON
Body == JSONparse(resp.res.body).v
HealthOk == resp.route = "health" /\ resp.res.status = 200

\* C5: missing-document bootstrap - with no version document in the data
\* directory, GET /tools (not presenting the validator of the empty
\* snapshot) is answered 200 with {tools: [], updated_at: null,
\* status: "error"}, and GET /health is answered 200 with status "stale" or
\* "error" and tools_count 0.
C5_Bootstrap ==
  disk[VERSIONS_FILE] = Absent =>
    /\ (resp.route = "tools"
        /\ resp.inm # QuoteETag(md5hex(EmptySnapshotText))) =>
         /\ resp.res.status = 200
         /\ resp.res.body = EmptySnapshotText
    /\ resp.route = "health" =>
         /\ resp.res.status = 200
         /\ Prop(Body, "status") \in {Str("stale"), Str("error")}
         /\ Prop(Body, "tools_count") = Num(0)

C5_Witness ==
  /\ disk[VERSIONS_FILE] = Absent
  /\ resp.route = "tools"
  /\ resp.inm = NoHeader
  /\ resp.res.status = 200
  /\ resp.res.body = EmptySnapshotText

\* C6: load never fails - loadVersions and loadUpdateInfo never throw; for
\* a file that is absent, unreadable or malformed they return the fixed
\* fallback documents, and that is what GET /update and GET /tools serve.
C6_LoadNeverFails ==
  /\ ~loadVersions(disk).threw
  /\ ~loadUpdateInfo(disk).threw
  /\ Failing(VERSIONS_FILE) => loadVersions(disk).v = EmptySnapshot
  /\ Failing(UPDATE_FILE) => loadUpdateInfo(disk).v = EmptyUpdateInfo
  /\ (resp.route = "update" /\ Failing(UPDATE_FILE)
      /\ resp.res.status # 304) =>
       /\ resp.res.status = 200
       /\ resp.res.body = JSONstringify(EmptyUpdateInfo)

C6_Witness ==
  /\ resp.route = "update"
  /\ Malformed(disk[UPDATE_FILE])
  /\ resp.res.status = 200
  /\ resp.res.body = JSONstringify(EmptyUpdateInfo)

\* C7: every read handler answers every request with exactly one
\* well-formed response, whatever the stored document holds: 304 without a
\* body, or 200, 404 or 500 with a JSON body, the error responses carrying
\* an error field; no failure leaves the handler.
C7_AlwaysAnswers ==
  resp.route # "none" =>
    /\ resp.res.sent = 1
    /\ resp.res.status \in {200, 304, 404, 500}
    /\ IF resp.res.status = 304
         THEN ~resp.res.hasBody /\ resp.res.body = <<>>
         ELSE resp.res.hasBody /\ ~JSONparse(resp.res.body).threw
    /\ resp.res.status \in {404, 500} =>
         /\ Body.t = "obj"
         /\ Prop(Body, "error").t = "str"

\* a document that parses but has no tools sequence
C7_Witness ==
  /\ disk[VERSIONS_FILE] = File(<<LBrace, RBrace>>)
  /\ resp.route \in {"tool", "health"}
  /\ resp.res.sent = 1
  /\ resp.res.status = 500

\* the document the version file holds (the empty snapshot if it holds none)
Data ==
  IF Stored(VERSIONS_FILE) THEN JSONparse(disk[VERSIONS_FILE].text).v
  ELSE EmptySnapshot
UpdatedAt == Prop(Data, "updated_at")
HasInstant == UpdatedAt.t \in {"iso", "num"}
AgeMs == resp.now - (IF UpdatedAt.t = "iso" THEN UpdatedAt.ms ELSE UpdatedAt.n)
FifteenMinutes == 15 * 60000
Reported == Prop(Body, "status")

\* updated_at is absent (missing, null or otherwise falsy) or more than 15
\* minutes before now
Old ==
  \/ UpdatedAt \in {Undef, Null, Str(""), Num(0), Bool(FALSE)}
  \/ HasInstant /\ AgeMs > FifteenMinutes
\* the status the snapshot stores, "ok" if it stores none
StoredStatus ==
  IF Prop(Data, "status") \in {Undef, Null, Str("")} THEN Str("ok")
  ELSE Prop(Data, "status")

\* C8 as claimed: the status is "stale" exactly when updated_at is absent or
\* older than 15 minutes, and otherwise the status stored in the snapshot.
C8_StaleExactlyWhenOld ==
  HealthOk =>
    /\ (Reported = Str("stale")) <=> Old
    /\ ~Old => Reported = StoredStatus

\* C8, amended: GET /health reports "stale" whenever updated_at is absent
\* (missing, null or otherwise falsy) or now - updated_at is strictly
\* greater than 15 minutes, whatever status is stored; otherwise it reports
\* the stored status - which may itself be "stale", so a fresh snapshot can
\* be reported stale - or "ok" when the snapshot stores none.
C8_Staleness ==
  HealthOk => Reported = (IF Old THEN Str("stale") ELSE StoredStatus)

\* a snapshot that says "ok" and is 16 minutes old
C8_Witness ==
  /\ HealthOk
  /\ Prop(Data, "status") = Str("ok")
  /\ UpdatedAt = Iso(T0)
  /\ resp.now = T0 + 16 * 60000
  /\ Reported = Str("stale")

StoredTools == Prop(Data, "tools").a
ReportedTools == Prop(Body, "tools").a
Flagged(tool) ==
  Prop(tool, "is_stale") = Bool(TRUE) \/ Prop(tool, "stale") = Bool(TRUE)

\* C9 as claimed: the is_stale of the health view is the tool's flag (or
\* its legacy alias) OR the presence of last_check_error.
C9_ErrorMakesStale ==
  HealthOk =>
    \A i \in 1..Len(StoredTools) :
      Prop(ReportedTools[i], "is_stale") =
        Bool(Flagged(StoredTools[i])
             \/ Prop(StoredTools[i], "last_check_error") # Undef)

\* C9, amended: the is_stale of the health view is the disjunction of the
\* tool's is_stale flag and its legacy alias stale, nothing else (false
\* when neither is set); a last_check_error does not make the tool stale, it
\* is reported as has_error, which is true exactly when error or
\* last_check_error is set.
C9_StaleIsFlagOnly ==
  HealthOk =>
    \A i \in 1..Len(StoredTools) :
      /\ Prop(ReportedTools[i], "is_stale") = Bool(Flagged(StoredTools[i]))
      /\ Prop(ReportedTools[i], "has_error") =
           Bool(\/ Prop(StoredTools[i], "error") \notin {Undef, Null, Str("")}
                \/ Prop(StoredTools[i], "last_check_error")
                     \notin {Undef, Null, Str("")})

\* a record with a last_check_error and no flag set is reported not stale
C9_Witness ==
  /\ HealthOk
  /\ \E i \in 1..Len(StoredTools) :
       /\ Prop(StoredTools[i], "last_check_error") = Str("timeout")
       /\ ~Flagged(StoredTools[i])
       /\ Prop(ReportedTools[i], "is_stale") = Bool(FALSE)
       /\ Prop(ReportedTools[i], "has_error") = Bool(TRUE)

\* the same record with its staleness flag under the other field name
OtherName(tool) ==
  Obj([i \in 1..Len(tool.o) |->
         IF tool.o[i][1] = "stale" THEN <<"is_stale", tool.o[i][2]>>
         ELSE IF tool.o[i][1] = "is_stale" THEN <<"stale", tool.o[i][2]>>
         ELSE tool.o[i]])

\* C10: legacy-alias tolerance - the projection the health view reports for
\* a stored tool record is the projection of the record that carries the
\* same flag value under the other field name (stale for is_stale, is_stale
\* for stale).
C10_AliasTolerance ==
  HealthOk =>
    \A i \in 1..Len(StoredTools) :
      JSONstringify(ReportedTools[i])
        = JSONstringify(toolStatus(OtherName(StoredTools[i])))

\* a record flagged under the old name is served as stale
C10_Witness ==
  /\ HealthOk
  /\ \E i \in 1..Len(StoredTools) :
       /\ HasKey(StoredTools[i].o, "stale")
       /\ ~HasKey(StoredTools[i].o, "is_stale")
       /\ Prop(StoredTools[i], "stale") = Bool(TRUE)
       /\ Prop(ReportedTools[i], "is_stale") = Bool(TRUE)

\* the same logical content: equal scalars, arrays equal element by element,
\* objects with the same keys and the same content under every key, in any
\* order
RECURSIVE SameContent(_, _)
SameContent(a, b) ==
  CASE a.t = "obj" /\ b.t = "obj" ->
         /\ {a.o[i][1] : i \in 1..Len(a.o)} = {b.o[i][1] : i \in 1..Len(b.o)}
         /\ \A i \in 1..Len(a.o) :
              SameContent(a.o[i][2], Prop(b, a.o[i][1]))
    [] a.t = "arr" /\ b.t = "arr" ->
         /\ Len(a.a) = Len(b.a)
         /\ \A i \in 1..Len(a.a) : SameContent(a.a[i], b.a[i])
    [] OTHER -> a = b

\* two objects with the same keys that differ in the value of exactly one
DifferInOneField(a, b) ==
  /\ a.t = "obj" /\ b.t = "obj"
  /\ {a.o[i][1] : i \in 1..Len(a.o)} = {b.o[i][1] : i \in 1..Len(b.o)}
  /\ Cardinality({i \in 1..Len(a.o) :
                    ~SameContent(a.o[i][2], Prop(b, a.o[i][1]))}) = 1

\* C11: fingerprint stability - two documents of the same content, in
\* whatever field order, get the same fingerprint, and two documents that
\* differ in a single field get different fingerprints.
\* (Violated: JSON.stringify writes the members in insertion order, so the
\* digest follows the field order.)
C11_FingerprintStable ==
  etags # <<>> =>
    /\ SameContent(docs[1], docs[2]) => etags[1] = etags[2]
    /\ DifferInOneField(docs[1], docs[2]) => etags[1] # etags[2]

\* what does hold: documents with equal field order and content agree, a
\* single-field difference is always seen
FingerprintOfText ==
  etags # <<>> =>
    /\ docs[1] = docs[2] => etags[1] = etags[2]
    /\ DifferInOneField(docs[1], docs[2]) => etags[1] # etags[2]

\* a step in which a request is answered
Answered == resp = NoRequest /\ resp' # NoRequest

\* C12: the read path is read-only and decoupled from refresh - a step that
\* answers GET /tools, GET /tools/{id}, GET /update or GET /health leaves
\* every file of the data directory as it was and starts no refresh cycle,
\* and it is taken whether or not a cycle is running.
C12_ReadOnly ==
  [][Answered =>
       /\ disk' = disk
       /\ cycles' = cycles
       /\ lastCommitted' = lastCommitted
       /\ resp'.res.sent = 1]_vars

\* a request answered while a refresh cycle is in the middle of its save
C12_Witness ==
  /\ resp.route = "health"
  /\ resp.res.status = 200
  /\ \E c \in 1..Len(cycles) : cycles[c].pc = "save"

\* the instant a snapshot was taken at, -1 for a document without one (the
\* fallback of an empty data directory)
UpdatedAtMs(data) ==
  LET d == IF Nullish(data) THEN NaN ELSE NewDate(Prop(data, "updated_at"))
  IN IF d.t = "num" /\ Truthy(Prop(data, "updated_at")) THEN d.n ELSE -1

C14_ServesPersisted ==
  (resp.route = "tools" /\ lastCommitted # <<>>) =>
    /\ resp.res.status = 200
    /\ resp.res.body = lastCommitted
    /\ resp.res.body # JSONstringify(FallbackVersions)

\* the process was terminated in the middle of a cycle and started again;
\* its new eager cycle is in the middle of its save when GET /tools is
\* answered with the snapshot of the earlier run
C14_Witness ==
  /\ Len(cycles) = 2
  /\ cycles[1].pc = "killed"
  /\ cycles[2].pc = "save"
  /\ resp.route = "tools"
  /\ resp.res.body = JSONstringify(GoodSnapshot)

\* C15: scheduler lifecycle - with the scheduler enabled, start() starts one
\* refresh cycle at once and registers the timer, and every tick of the
\* timer starts one more cycle; with ENABLE_CRON = 'false' the timer is never
\* registered and no cycle is ever started.
C15_SchedulerLifecycle ==
  /\ [][/\ start =>
             IF enableCron
               THEN /\ cycles' = Append(cycles, NewCycle)
                    /\ scheduled'
               ELSE /\ cycles' = cycles
                    /\ ~scheduled'
        /\ cronTick => enableCron /\ cycles' = Append(cycles, NewCycle)]_vars
  /\ [](~enableCron => cycles = <<>> /\ ~scheduled)

\* the eager cycle and the cycle of the first tick
C15_Witness ==
  /\ enableCron
  /\ proc = "running"
  /\ scheduled
  /\ Len(cycles) = 2

\* C16: a failed refresh cycle is contained - the step in which a cycle
\* fails leaves the process running and its timer registered (reads are
\* still served, later ticks still start cycles) and leaves what a load
\* returns, the snapshot saved last, as it was.
C16_FailureContained ==
  [][\A c \in 1..Len(cycles) :
       cycleFail(c) =>
         /\ proc' = "running"
         /\ scheduled'
         /\ loadVersions(disk') = loadVersions(disk)
         /\ lastCommitted' = lastCommitted]_vars

\* the eager cycle has failed, another cycle has been started, and GET /tools
\* is answered with the snapshot that was on disk before
C16_Witness ==
  /\ Len(cycles) = 2
  /\ cycles[1].pc = "failed"
  /\ cycles[2].pc = "fetch"
  /\ proc = "running"
  /\ scheduled
  /\ resp.route = "tools"
  /\ resp.res.status = 200
  /\ resp.res.body = JSONstringify(GoodSnapshot)

\* the records of the stored tools sequence whose id is the requested one
Matching ==
  {i \in 1..Len(StoredTools) : Prop(StoredTools[i], "id") = Str(resp.id)}

\* GET /tools/{id} was answered over a snapshot: a document (the fallback
\* included) whose tools member is a sequence of records
ToolOverSnapshot ==
  /\ resp.route = "tool"
  /\ ~Nullish(Data)
  /\ Prop(Data, "tools").t = "arr"
  /\ \A i \in 1..Len(StoredTools) : StoredTools[i].t = "obj"

\* C17: GET /tools/{id} over a snapshot answers 404 carrying the requested
\* id exactly when no record of the snapshot has that id, and otherwise 200
\* with the (first) record whose id equals the requested one.
C17_GetOneTool ==
  ToolOverSnapshot =>
    IF Matching = {}
      THEN /\ resp.res.status = 404
           /\ Prop(Body, "id") = Str(resp.id)
           /\ Prop(Body, "error") = Str("Tool not found")
      ELSE /\ resp.res.status = 200
           /\ resp.res.body =
                JSONstringify(StoredTools[CHOOSE i \in Matching :
                                            \A j \in Matching : i <= j])

\* the second record of a snapshot is found, and an unknown id is not
C17_Witness ==
  /\ ToolOverSnapshot
  /\ Len(StoredTools) = 2
  /\ resp.id = ToolId(2)
  /\ resp.res.status = 200
  /\ Prop(Body, "id") = Str(ToolId(2))

\* updated_at is absent: missing, null or otherwise falsy
NoTimestamp == UpdatedAt \in {Undef, Null, Str(""), Num(0), Bool(FALSE)}
ReportedAge == Prop(Body, "age_minutes")

\* C18 as claimed: age_minutes is null exactly when updated_at is absent,
\* and otherwise the floor of (now - updated_at) in whole minutes.
C18_AgeNullExactlyWhenAbsent ==
  HealthOk =>
    /\ (ReportedAge = Null) <=> NoTimestamp
    /\ HasInstant /\ ~NoTimestamp => ReportedAge = Num(AgeMs \div 60000)

\* C18, amended: age_minutes is null when updated_at is absent (missing,
\* null or otherwise falsy) and also when it is present but is no valid
\* date; in every other case it is the floor of (now - updated_at) / 60000.
C18_AgeMinutes ==
  HealthOk =>
    ReportedAge = (IF HasInstant /\ ~NoTimestamp
                     THEN Num(AgeMs \div 60000)
                     ELSE Null)

\* a snapshot 15 minutes and 59.999 seconds old is 15 minutes old
C18_Witness ==
  /\ HealthOk
  /\ UpdatedAt = Iso(T0)
  /\ resp.now = T0 + 959999
  /\ ReportedAge = Num(15)

\* C19: validator and body agree - in every interleaving of GET /tools and
\* GET /update with the writes of the refresh cycles, the ETag of a 200
\* response is the quoted MD5 digest of exactly the text sent as its body,
\* and that text is the document on disk at the time of the request.
C19_ValidatorMatchesBody ==
  (resp.route \in {"tools", "update"} /\ resp.res.status = 200) =>
    /\ resp.res.hasBody
    /\ resp.res.etag = QuoteETag(md5hex(resp.res.body))
    /\ resp.res.body =
         JSONstringify(IF resp.route = "tools" THEN loadVersions(disk).v
                       ELSE loadUpdateInfo(disk).v)

\* GET /tools answered with a snapshot a refresh cycle has written, while
\* another cycle is in the middle of its save
C19_Witness ==
  /\ resp.route = "tools"
  /\ resp.res.status = 200
  /\ resp.res.body # JSONstringify(GoodSnapshot)
  /\ resp.res.etag = QuoteETag(md5hex(resp.res.body))
  /\ \E c \in 1..Len(cycles) : cycles[c].pc = "save"

\* the records and the baseline the script would read in a directory
Records(dir) == [i \in 1..Len(FILES) |-> readGuidelineFile(dir, FILES[i])]
Baseline(dir) == selectBaseline(SelectSeq(Records(dir), LAMBDA r : r.exists))
LastRun(rs) == rs[Len(rs)]
\* this step is a run of the script in the mode m
Ran(m) == Len(runs') = Len(runs) + 1 /\ LastRun(runs').mode = m
\* f has after the step the frontmatter it had before, up to the line end
\* that closes it
FrontmatterKept(f) ==
  LET before == readGuidelineFile(cwd, f).frontmatter
      after == readGuidelineFile(cwd', f).frontmatter
  IN after = before \/ after = before \o <<LF>>

\* C20: guideline sync converges. When at least one of the two files
\* exists, a fix run leaves both files in existence, each with its own
\* frontmatter and with a normalized body equal to that of the baseline
\* (the file modified last, the smaller name on a tie), and a check run that
\* follows the fix run with no change in between succeeds, whatever the
\* files hold.
C20_FixThenCheck ==
  /\ [][ (Ran("fix") /\ Baseline(cwd) # Null) =>
           \A f \in FileNames :
             /\ cwd'[f].exists
             /\ FrontmatterKept(f)
             /\ readGuidelineFile(cwd', f).bodyNormalized
                  = Baseline(cwd).bodyNormalized ]_vars
  /\ [][ ( /\ runs # <<>>
           /\ LastRun(runs).mode = "fix"
           /\ LastRun(runs).code = 0
           /\ Ran("check") ) => LastRun(runs').code = 0 ]_vars

\* the texts on which the fix run does converge: the body the baseline
\* gives, once normalized, neither opens with a fence nor changes when it is
\* normalized again
Settled(body) ==
  /\ normalizeBody(body) = normalizeBody(normalizeBody(body))
  /\ normalizeBody(body) = <<>> \/ normalizeBody(body)[1] # Fence
FixThenCheckOnSettled ==
  [][ ( /\ runs # <<>>
        /\ LastRun(runs).mode = "fix"
        /\ LastRun(runs).code = 0
        /\ Ran("check")
        /\ \A f \in FileNames : Settled(readGuidelineFile(cwd, f).body) )
      => LastRun(runs').code = 0 ]_vars

\* a file is missing, or a file has a normalized body other than the
\* baseline's
Missing(dir) == \E f \in FileNames : ~dir[f].exists
Mismatch(dir) ==
  /\ Baseline(dir) # Null
  /\ \E f \in FileNames :
       /\ dir[f].exists
       /\ readGuidelineFile(dir, f).bodyNormalized
            # Baseline(dir).bodyNormalized

====
